---- MODULE Spec2Model ----
(***************************************************************************)
(* Model of schema.py: the pydantic models DefaultPriorities, Provider and *)
(* VariantsSchema, their field and model validators, the serialisation of  *)
(* an instance by alias, and the JSON Schema emitted from the field        *)
(* declarations.                                                           *)
(*                                                                         *)
(* Python values are modelled as follows.  A str is a TLA+ string; a       *)
(* list[str] is a sequence of strings; a dict is a sequence of <<key,      *)
(* value>> pairs with distinct keys (insertion order, which is the order   *)
(* the validators iterate in); an Optional value is <<>> for None and      *)
(* <<x>> for the value x.  A raw input mapping is a record (a function on  *)
(* the keys that are present).                                             *)
(***************************************************************************)
EXTENDS Integers, Sequences, FiniteSets, TLC

VARIABLES
    input,      \* the raw value handed to the validator under test / the raw document
    verdict,    \* outcome of the last field validator applied to input
    pc,         \* position of a VariantsSchema validation run / of its caller
    idx,        \* index of the next providers item to validate
    errors,     \* errors collected so far by the validation run
    log,        \* the validator functions executed so far, in order
    inst,       \* the constructed instance (None before construction)
    writes,     \* number of assignments / in-place mutations the caller has made to inst
    dumped,     \* last result of model_dump(by_alias=True)
    reval       \* last result of model_validate(dumped)

vars == <<input, verdict, pc, idx, errors, log, inst, writes, dumped, reval>>

(***************************************************************************)
(* Bounds of the model.                                                    *)
(***************************************************************************)
MaxRun == 17        \* longest run of a repeated valid character in a test string
MaxTail == 3        \* longest arbitrary suffix appended to the run
MaxListLen == 3     \* longest list handed to a unique-values field
MaxProviders == 2   \* most items of a providers mapping
MaxWrites == 2      \* most writes a caller makes to a constructed instance

(***************************************************************************)
(* Python values.                                                          *)
(***************************************************************************)
None == <<>>
Some(x) == <<x>>
IsNone(o) == o = <<>>
Val(o) == o[1]

Range(f) == {f[i] : i \in DOMAIN f}
MinOf(S) == CHOOSE m \in S : \A n \in S : m <= n

\* s[i-1] of a Python str (1-based here)
Char(s, i) == SubSeq(s, i, i)

RECURSIVE Rep(_, _)
Rep(c, n) == IF n = 0 THEN "" ELSE Rep(c, n - 1) \o c

\* sub in msg
Contains(msg, sub) ==
    \E i \in 0..(Len(msg) - Len(sub)) : SubSeq(msg, i + 1, i + Len(sub)) = sub

(***************************************************************************)
(* Regular expressions, as re.compile(p).match(s) evaluates them: the      *)
(* match is anchored at the start of s, need not reach its end, and `$'    *)
(* (no MULTILINE flag) matches at the end of s or just before a newline    *)
(* that is the last character of s.                                        *)
(***************************************************************************)
Lower == {"a","b","c","d","e","f","g","h","i","j","k","l","m",
          "n","o","p","q","r","s","t","u","v","w","x","y","z"}
Upper == {"A","B","C","D","E","F","G","H","I","J","K","L","M",
          "N","O","P","Q","R","S","T","U","V","W","X","Y","Z"}
Digit == {"0","1","2","3","4","5","6","7","8","9"}

NsClass == Lower \cup Digit \cup {"_"}                    \* [a-z0-9_]
ValClass == Lower \cup Digit \cup {"_", "."}              \* [a-z0-9_.]
KeyClass == Upper \cup Lower \cup Digit \cup {"_"}        \* [A-Za-z0-9_]
RefClass == Lower \cup Upper \cup Digit \cup {".", "_"}   \* [a-zA-Z0-9._]

LabelMinLen == 1
LabelMaxLen == 16

\* chars lo+1 .. hi of s all lie in class
AllIn(s, lo, hi, class) == \A i \in (lo + 1)..hi : Char(s, i) \in class

\* `$' after k characters have been consumed
DollarAt(s, k) ==
    \/ k = Len(s)
    \/ k = Len(s) - 1 /\ Char(s, Len(s)) = "\n"

\* ^[class]{lo,hi}$ matched from the start of s
MatchRun(s, class, lo, hi) ==
    \E k \in lo..hi : k <= Len(s) /\ AllIn(s, 0, k, class) /\ DollarAt(s, k)

\* ^[class]+$
MatchPlus(s, class) == MatchRun(s, class, 1, Len(s))

ns_pattern(s) == MatchPlus(s, NsClass)          \* ^[a-z0-9_]+$
val_pattern(s) == MatchPlus(s, ValClass)        \* ^[a-z0-9_.]+$
key_pattern(s) == MatchPlus(s, KeyClass)        \* ^[A-Za-z0-9_]+$
label_pattern(s) == MatchRun(s, ValClass, LabelMinLen, LabelMaxLen)  \* ^[a-z0-9_.]{1,16}$

\* ^([a-zA-Z0-9._]+ *: *[a-zA-Z0-9._]+)|([a-zA-Z0-9._]+)$
\* `|' binds loosest: the first alternative carries `^' only, the second `$' only.
plugin_api_alt1(s) ==
    \E i \in 1..Len(s) : \E j \in i..Len(s) : \E k \in (j + 1)..Len(s) : \E l \in (k + 1)..Len(s) :
        /\ AllIn(s, 0, i, RefClass)
        /\ AllIn(s, i, j, {" "})
        /\ Char(s, j + 1) = ":"
        /\ AllIn(s, j + 1, k, {" "})
        /\ AllIn(s, k, l, RefClass)
plugin_api_alt2(s) == MatchPlus(s, RefClass)
plugin_api_pattern(s) == plugin_api_alt1(s) \/ plugin_api_alt2(s)

(***************************************************************************)
(* Results of a validator: it returns its argument or raises ValueError.   *)
(***************************************************************************)
Ok == [ok |-> TRUE, kind |-> "none", msg |-> ""]
Err(kind, msg) == [ok |-> FALSE, kind |-> kind, msg |-> msg]

\* the first raise met when the checks run in sequence order
FirstErr(rs) ==
    LET bad == {i \in DOMAIN rs : ~rs[i].ok}
    IN IF bad = {} THEN Ok ELSE rs[MinOf(bad)]

\* for item in v: if not pattern.match(item): raise ValueError(f"{pre}{item}{post}"),
\* matches[i] telling whether item i matches
ItemsMatch(v, matches, pre, post) ==
    FirstErr([i \in DOMAIN v |-> IF matches[i] THEN Ok ELSE Err("pattern", pre \o v[i] \o post)])

\* compares neighbours only
HasDuplicate_adjacent(v) == \E i \in 1..(Len(v) - 1) : v[i] = v[i + 1]

\* len(v) != len(set(v))
HasDuplicate(v) == Len(v) # Cardinality(Range(v))

\* str() of a 2-tuple of ints, which is what an f-string field {a, b} renders
PyTupleStr(a, b) == "(" \o ToString(a) \o ", " \o ToString(b) \o ")"

(***************************************************************************)
(* class DefaultPriorities                                                 *)
(***************************************************************************)
validate_namespace(v) ==
    FirstErr(<<
        ItemsMatch(v, [i \in DOMAIN v |-> ns_pattern(v[i])], "Namespace '", "' must match ^[a-z0-9_]+$"),
        IF HasDuplicate(v) THEN Err("unique", "Namespace items must be unique") ELSE Ok
    >>)

\* namespace: Annotated[list[str], Field(min_length=1)], then the field validator
namespace_field(v) ==
    IF Len(v) < 1 THEN Err("too_short", "List should have at least 1 item")
    ELSE validate_namespace(v)

feature_entry(namespace, features) ==
    FirstErr(<<
        IF ns_pattern(namespace) THEN Ok
        ELSE Err("pattern", "Feature namespace '" \o namespace \o "' must match ^[a-z0-9_]+$"),
        ItemsMatch(features, [i \in DOMAIN features |-> ns_pattern(features[i])], "Feature '", "' must match ^[a-z0-9_]+$"),
        IF HasDuplicate(features)
        THEN Err("unique", "Features for namespace '" \o namespace \o "' must be unique")
        ELSE Ok
    >>)

validate_feature(v) ==
    IF IsNone(v) THEN Ok
    ELSE FirstErr([i \in DOMAIN Val(v) |-> feature_entry(Val(v)[i][1], Val(v)[i][2])])

\* the loops shared by validate_property and validate_static_properties, which
\* differ in the words of their messages only
values_entry(what, uniq, namespace, feature, values) ==
    FirstErr(<<
        IF ns_pattern(feature) THEN Ok
        ELSE Err("pattern", what \o " feature '" \o feature \o "' must match ^[a-z0-9_]+$"),
        ItemsMatch(values, [i \in DOMAIN values |-> val_pattern(values[i])], what \o " value '", "' must match ^[a-z0-9_.]+$"),
        IF HasDuplicate(values)
        THEN Err("unique", uniq \o " for '" \o namespace \o "." \o feature \o "' must be unique")
        ELSE Ok
    >>)

namespace_entry(what, uniq, namespace, features) ==
    FirstErr(
        << IF ns_pattern(namespace) THEN Ok
           ELSE Err("pattern", what \o " namespace '" \o namespace \o "' must match ^[a-z0-9_]+$") >>
        \o [j \in DOMAIN features |->
               values_entry(what, uniq, namespace, features[j][1], features[j][2])])

validate_property(v) ==
    IF IsNone(v) THEN Ok
    ELSE FirstErr([i \in DOMAIN Val(v) |->
            namespace_entry("Property", "Properties", Val(v)[i][1], Val(v)[i][2])])

\* DefaultPriorities(raw): every field is validated and the errors are collected
DefaultPriorities_fields(raw) ==
    [namespace |-> IF "namespace" \in DOMAIN raw THEN raw.namespace ELSE <<>>,
     feature |-> IF "feature" \in DOMAIN raw THEN raw.feature ELSE None,
     property |-> IF "property" \in DOMAIN raw THEN raw.property ELSE None]

DefaultPriorities_errors(raw) ==
    LET f == DefaultPriorities_fields(raw)
    IN SelectSeq(<<
           IF "namespace" \in DOMAIN raw THEN namespace_field(f.namespace)
           ELSE Err("missing", "Field required"),
           validate_feature(f.feature),
           validate_property(f.property)
       >>, LAMBDA r : ~r.ok)

(***************************************************************************)
(* class Provider                                                          *)
(***************************************************************************)
validate_plugin_api(v) ==
    IF IsNone(v) THEN Ok
    ELSE IF plugin_api_pattern(Val(v)) THEN Ok
    ELSE Err("pattern", "plugin-api must match pattern: "
                \o "^([a-zA-Z0-9._]+ *: *[a-zA-Z0-9._]+)|([a-zA-Z0-9._]+)$")

\* enable_if: Annotated[str | None, Field(min_length=1)]
enable_if_field(v) ==
    IF IsNone(v) \/ Len(Val(v)) >= 1 THEN Ok
    ELSE Err("too_short", "String should have at least 1 character")

validate_requires(v) ==
    IF IsNone(v) THEN Ok
    ELSE FirstErr(<<
        FirstErr([i \in DOMAIN Val(v) |->
            IF Val(v)[i] = "" \/ Len(Val(v)[i]) < 1
            THEN Err("min_length", "Each requires item must have minimum length 1")
            ELSE Ok]),
        IF HasDuplicate(Val(v)) THEN Err("unique", "Requires items must be unique") ELSE Ok
    >>)

validate_conditional_requires_falsy(self) ==
    IF self.install_time # FALSE /\ (IsNone(self.requires) \/ self.requires = Some(<<>>))
    THEN Err("cross", "'requires' is required when 'install-time' is not false")
    ELSE Ok

\* model_validator(mode="after")
validate_conditional_requires(self) ==
    IF self.install_time # FALSE /\ IsNone(self.requires)
    THEN Err("cross", "'requires' is required when 'install-time' is not false")
    ELSE Ok

\* populate_by_name=True: a field is read under its alias, else under its name,
\* else it takes its default
Field(raw, alias, name, default) ==
    IF alias \in DOMAIN raw THEN raw[alias]
    ELSE IF name \in DOMAIN raw THEN raw[name]
    ELSE default

Provider_fields(raw) ==
    [plugin_api |-> Field(raw, "plugin-api", "plugin_api", None),
     enable_if |-> Field(raw, "enable-if", "enable_if", None),
     install_time |-> Field(raw, "install-time", "install_time", TRUE),
     optional |-> Field(raw, "optional", "optional", FALSE),
     requires |-> Field(raw, "requires", "requires", None)]

Provider_field_errors(raw) ==
    LET f == Provider_fields(raw)
    IN SelectSeq(<<validate_plugin_api(f.plugin_api),
                   enable_if_field(f.enable_if),
                   validate_requires(f.requires)>>, LAMBDA r : ~r.ok)

\* constructs without running the model validator
Provider_validate_nocross(raw) ==
    LET f == Provider_fields(raw)
        fe == Provider_field_errors(raw)
    IN IF fe # <<>> THEN [ok |-> FALSE, errs |-> fe, cross_ran |-> FALSE, inst |-> None]
       ELSE [ok |-> TRUE, errs |-> <<>>, cross_ran |-> FALSE, inst |-> Some(f)]

\* Provider(raw): the field validators, then, only if none raised, the model validator
Provider_validate(raw) ==
    LET f == Provider_fields(raw)
        fe == Provider_field_errors(raw)
        cross == validate_conditional_requires(f)
    IN IF fe # <<>> THEN [ok |-> FALSE, errs |-> fe, cross_ran |-> FALSE, inst |-> None]
       ELSE IF ~cross.ok THEN [ok |-> FALSE, errs |-> <<cross>>, cross_ran |-> TRUE, inst |-> None]
       ELSE [ok |-> TRUE, errs |-> <<>>, cross_ran |-> TRUE, inst |-> Some(f)]

(***************************************************************************)
(* class VariantsSchema: the field validators                              *)
(***************************************************************************)
validate_providers(v) ==
    FirstErr([i \in DOMAIN v |->
        IF key_pattern(v[i][1]) THEN Ok
        ELSE Err("pattern", "Provider key '" \o v[i][1] \o "' must match ^[A-Za-z0-9_]+$")])

validate_static_properties(v) ==
    IF IsNone(v) THEN Ok
    ELSE FirstErr([i \in DOMAIN Val(v) |->
            namespace_entry("Static property", "Static property values",
                            Val(v)[i][1], Val(v)[i][2])])

variant_feature_entry(label, namespace, feature, values) ==
    FirstErr(<<
        IF val_pattern(feature) THEN Ok
        ELSE Err("pattern", "Variant feature '" \o feature \o "' must match ^[a-z0-9_.]+$"),
        IF Len(values) < 1
        THEN Err("min_length", "Variant '" \o label \o "." \o namespace \o "." \o feature
                                \o "' must have at least 1 value")
        ELSE Ok,
        ItemsMatch(values, [i \in DOMAIN values |-> val_pattern(values[i])], "Variant value '", "' must match ^[a-z0-9_.]+$"),
        IF HasDuplicate(values)
        THEN Err("unique", "Variant values for '" \o label \o "." \o namespace \o "." \o feature
                            \o "' must be unique")
        ELSE Ok
    >>)

variant_namespace_entry(label, namespace, features) ==
    FirstErr(
        << IF val_pattern(namespace) THEN Ok
           ELSE Err("pattern", "Variant namespace '" \o namespace \o "' must match ^[a-z0-9_.]+$") >>
        \o [k \in DOMAIN features |->
               variant_feature_entry(label, namespace, features[k][1], features[k][2])])

\* f"Variant label '{label}' must match ^[a-z0-9_.]{1, 16}$": in an f-string
\* {1, 16} is a replacement field whose expression is the tuple (1, 16)
label_message(label) ==
    "Variant label '" \o label \o "' must match ^[a-z0-9_.]"
        \o PyTupleStr(LabelMinLen, LabelMaxLen) \o "$"

variant_entry(label, namespaces) ==
    FirstErr(
        << IF label_pattern(label) THEN Ok ELSE Err("pattern", label_message(label)) >>
        \o [j \in DOMAIN namespaces |->
               variant_namespace_entry(label, namespaces[j][1], namespaces[j][2])])

validate_variants(v) ==
    FirstErr([i \in DOMAIN v |-> variant_entry(v[i][1], v[i][2])])

(***************************************************************************)
(* Specifications of the field validators: Init draws the raw value, each  *)
(* action applies one validator to it and records what it returned or      *)
(* raised.                                                                 *)
(***************************************************************************)
NoVerdict == [rule |-> "none", ok |-> FALSE, kind |-> "none", msg |-> ""]
Verdict(rule, r) == [rule |-> rule, ok |-> r.ok, kind |-> r.kind, msg |-> r.msg]

\* the variables of a document validation run, unused by the field specifications
RunIdle ==
    /\ pc = "field" /\ idx = 0 /\ errors = <<>> /\ log = <<>>
    /\ inst = None /\ writes = 0 /\ dumped = None /\ reval = None
RunUnchanged == UNCHANGED <<input, pc, idx, errors, log, inst, writes, dumped, reval>>

Alphabet == {"a", "Z", "7", "_", ".", "-", " ", "\n", ":"}

RECURSIVE StrOfLen(_)
StrOfLen(n) == IF n = 0 THEN {""} ELSE {s \o c : s \in StrOfLen(n - 1), c \in Alphabet}

\* a run of a valid character followed by an arbitrary short suffix
Strings == {Rep("a", n) \o t : n \in 0..MaxRun, t \in UNION {StrOfLen(m) : m \in 0..MaxTail}}

InitPattern == input \in Strings /\ verdict = NoVerdict /\ RunIdle

\* input as an element of default-priorities.namespace
ApplyNamespace ==
    /\ verdict.rule = "none"
    /\ verdict' = Verdict("namespace", namespace_field(<<input>>))
    /\ RunUnchanged

\* input as a key of providers
ApplyProviderKey ==
    /\ verdict.rule = "none"
    /\ verdict' = Verdict("provider_key", validate_providers(<< <<input, None>> >>))
    /\ RunUnchanged

\* input as a label of variants
ApplyVariantLabel ==
    /\ verdict.rule = "none"
    /\ verdict' = Verdict("label", validate_variants(<< <<input, <<>> >> >>))
    /\ RunUnchanged

\* input as plugin-api
ApplyPluginApi ==
    /\ verdict.rule = "none"
    /\ verdict' = Verdict("plugin_api", validate_plugin_api(Some(input)))
    /\ RunUnchanged

NextPattern == ApplyNamespace \/ ApplyProviderKey \/ ApplyVariantLabel \/ ApplyPluginApi

SpecPattern == InitPattern /\ [][NextPattern]_vars

\* every character of s lies in class
Over(s, class) == \A i \in 1..Len(s) : Char(s, i) \in class

\* C3: a 16-character label over [a-z0-9_.] is accepted, every label of 17 or
\* more characters is rejected whatever its content, and the empty label is rejected.
C3_LabelBoundary ==
    verdict.rule = "label" =>
        /\ (Len(input) = 16 /\ Over(input, ValClass)) => verdict.ok
        /\ Len(input) >= 17 => ~verdict.ok
        /\ input = "" => ~verdict.ok

\* C4: a namespace element is accepted iff it is a non-empty string over [a-z0-9_],
\* a providers key iff it is a non-empty string over [A-Za-z0-9_].
C4_NamespaceAndKeyPatterns ==
    /\ verdict.rule = "namespace" => (verdict.ok <=> (input # "" /\ Over(input, NsClass)))
    /\ verdict.rule = "provider_key" => (verdict.ok <=> (input # "" /\ Over(input, KeyClass)))

\* the whole of s is REF or REF *: *REF, REF a non-empty run over [a-zA-Z0-9._]
WholeReference(s) ==
    \/ s # "" /\ Over(s, RefClass)
    \/ \E i \in 1..Len(s) : \E j \in i..Len(s) : \E k \in (j + 1)..Len(s) :
          /\ AllIn(s, 0, i, RefClass)
          /\ AllIn(s, i, j, {" "})
          /\ Char(s, j + 1) = ":"
          /\ AllIn(s, j + 1, k, {" "})
          /\ k < Len(s)
          /\ AllIn(s, k, Len(s), RefClass)

\* C5: a non-null plugin_api is accepted iff the whole string is a module/class
\* reference, optionally colon-qualified, with nothing before or after it.
C5_PluginApiWholeString ==
    verdict.rule = "plugin_api" => (verdict.ok <=> WholeReference(input))

\* C10: the message raised for a rejected variant label contains the label and the
\* pattern text ^[a-z0-9_.]{1,16}$ that validate_variants compiles.
C10_LabelMessageNamesPattern ==
    (verdict.rule = "label" /\ ~verdict.ok) =>
        /\ Contains(verdict.msg, input)
        /\ Contains(verdict.msg, "^[a-z0-9_.]{1,16}$")

(***************************************************************************)
(* The unique-values fields: Init draws a list, each action hands it to    *)
(* one of the fields that check uniqueness.                                *)
(***************************************************************************)
Items == {"a", "b", "B-", ""}
Lists == UNION {[1..n -> Items] : n \in 0..MaxListLen}

InitList == input \in Lists /\ verdict = NoVerdict /\ RunIdle

ListNamespace ==
    /\ verdict.rule = "none"
    /\ verdict' = Verdict("namespace", namespace_field(input))
    /\ RunUnchanged

ListFeature ==
    /\ verdict.rule = "none"
    /\ verdict' = Verdict("feature", validate_feature(Some(<< <<"cuda", input>> >>)))
    /\ RunUnchanged

ListProperty ==
    /\ verdict.rule = "none"
    /\ verdict' = Verdict("property",
                    validate_property(Some(<< <<"cuda", << <<"sm", input>> >> >> >>)))
    /\ RunUnchanged

ListRequires ==
    /\ verdict.rule = "none"
    /\ verdict' = Verdict("requires", validate_requires(Some(input)))
    /\ RunUnchanged

ListStaticProperties ==
    /\ verdict.rule = "none"
    /\ verdict' = Verdict("static_properties",
                    validate_static_properties(Some(<< <<"cuda", << <<"sm", input>> >> >> >>)))
    /\ RunUnchanged

ListVariants ==
    /\ verdict.rule = "none"
    /\ verdict' = Verdict("variants",
                    validate_variants(<< <<"v1", << <<"cuda", << <<"sm", input>> >> >> >> >> >>))
    /\ RunUnchanged

NextList ==
    \/ ListNamespace \/ ListFeature \/ ListProperty
    \/ ListRequires \/ ListStaticProperties \/ ListVariants

SpecList == InitList /\ [][NextList]_vars

\* two positions of L hold equal elements
ContainsDuplicate(L) == \E i, j \in DOMAIN L : i # j /\ L[i] = L[j]

\* C2: in every unique-values field a list with a duplicate is rejected, whatever
\* its length and whether or not its elements match the pattern, and the uniqueness
\* rule rejects no list without a duplicate.
C2_UniqueValues ==
    verdict.rule # "none" =>
        /\ ContainsDuplicate(input) => ~verdict.ok
        /\ verdict.kind = "unique" => ContainsDuplicate(input)

C2_Witness ==
    /\ verdict.rule = "variants"
    /\ verdict.kind = "unique"
    /\ Len(input) = 3
    /\ input[1] = input[3] /\ input[1] # input[2]

(***************************************************************************)
(* Provider: Init draws a raw provider mapping, the action constructs a    *)
(* Provider from it.                                                       *)
(***************************************************************************)
Absent == <<>>
KeyChoices(k, vals) == {Absent} \cup {k :> v : v \in vals}

ProviderCandidates ==
    {a @@ b @@ c @@ d @@ e :
        a \in KeyChoices("plugin-api", {None, Some("pkg.mod:Cls"), Some("bad api")}),
        b \in KeyChoices("enable-if", {Some("os_name == 'posix'"), Some("")}),
        c \in KeyChoices("install-time", {TRUE, FALSE}) \cup KeyChoices("install_time", {TRUE, FALSE}),
        d \in KeyChoices("optional", {TRUE}),
        e \in KeyChoices("requires", {None, Some(<<>>), Some(<<"pkg>=1">>),
                                      Some(<<"pkg>=1", "pkg>=1">>), Some(<<"">>)})}

InitProvider == input \in ProviderCandidates /\ verdict = NoVerdict /\ RunIdle

ConstructProvider ==
    /\ verdict.rule = "none"
    /\ verdict' = [rule |-> "provider"] @@ Provider_validate(input)
    /\ RunUnchanged

NextProvider == ConstructProvider

SpecProvider == InitProvider /\ [][NextProvider]_vars

InstallTimeFalse(raw) ==
    \E k \in {"install-time", "install_time"} \cap DOMAIN raw : raw[k] = FALSE
RequiresAbsent(raw) == "requires" \notin DOMAIN raw \/ raw["requires"] = None

\* C1: a Provider candidate whose fields each pass their field validators is
\* rejected iff install_time is not false and requires is absent (missing or null).
C1_ConditionalRequires ==
    (verdict.rule = "provider" /\ Provider_field_errors(input) = <<>>) =>
        (~verdict.ok <=> (~InstallTimeFalse(input) /\ RequiresAbsent(input)))

\* install_time true with requires = [] has been accepted
C1_Witness ==
    /\ verdict.rule = "provider"
    /\ verdict.ok
    /\ "install-time" \in DOMAIN input /\ input["install-time"] = TRUE
    /\ "requires" \in DOMAIN input /\ input["requires"] = Some(<<>>)

(***************************************************************************)
(* VariantsSchema(raw): pydantic validates the fields in declaration     *)
(* order and collects the errors of all of them.  A field validator        *)
(* (mode "after") runs once the field's own value has validated, so        *)
(* validate_providers runs after every Provider of the mapping has been    *)
(* constructed, model validator included, and only if none of them failed. *)
(***************************************************************************)
Missing == Err("missing", "Field required")
Present(raw, alias, name) == alias \in DOMAIN raw \/ name \in DOMAIN raw

RECURSIVE Flatten(_)
Flatten(ss) == IF ss = <<>> THEN <<>> ELSE Head(ss) \o Flatten(Tail(ss))

default_priorities_errors(raw) ==
    IF ~Present(raw, "default-priorities", "default_priorities") THEN <<Missing>>
    ELSE DefaultPriorities_errors(Field(raw, "default-priorities", "default_priorities", <<>>))

\* the errors of the Provider values of the mapping ps
providers_value_errors(ps) == Flatten([i \in DOMAIN ps |-> Provider_validate(ps[i][2]).errs])

InnerFailed_ignored(ve) == FALSE

\* an after-validator is skipped when the inner validation of its field failed
InnerFailed(ve) == ve # <<>>

providers_key_errors(ps) ==
    IF InnerFailed(providers_value_errors(ps)) \/ validate_providers(ps).ok THEN <<>>
    ELSE <<validate_providers(ps)>>

providers_errors(raw) ==
    IF ~Present(raw, "providers", "providers") THEN <<Missing>>
    ELSE providers_value_errors(raw.providers) \o providers_key_errors(raw.providers)

static_properties_errors(raw) ==
    IF ~Present(raw, "static-properties", "static_properties") THEN <<>>
    ELSE LET r == validate_static_properties(Field(raw, "static-properties", "static_properties", None))
         IN IF r.ok THEN <<>> ELSE <<r>>

variants_errors(raw) ==
    IF ~Present(raw, "variants", "variants") THEN <<Missing>>
    ELSE LET r == validate_variants(raw.variants) IN IF r.ok THEN <<>> ELSE <<r>>

VariantsSchema_errors(raw) ==
    default_priorities_errors(raw) \o providers_errors(raw)
        \o static_properties_errors(raw) \o variants_errors(raw)

VariantsSchema_fields(raw) ==
    [default_priorities |->
        DefaultPriorities_fields(Field(raw, "default-priorities", "default_priorities", <<>>)),
     providers |-> [i \in DOMAIN raw.providers |->
                        <<raw.providers[i][1], Provider_fields(raw.providers[i][2])>>],
     static_properties |-> Field(raw, "static-properties", "static_properties", None),
     variants |-> raw.variants]

\* VariantsSchema.model_validate(raw): the instance, or ValidationError with the errors
VariantsSchema_validate(raw) ==
    LET es == VariantsSchema_errors(raw)
    IN IF es = <<>> THEN [ok |-> TRUE, errs |-> <<>>, inst |-> Some(VariantsSchema_fields(raw))]
       ELSE [ok |-> FALSE, errs |-> es, inst |-> None]

(***************************************************************************)
(* model_dump(by_alias=True): every field, None included, under its alias  *)
(* (its name where it declares none); nested models become mappings.       *)
(***************************************************************************)
DefaultPriorities_dump(d) ==
    [namespace |-> d.namespace, feature |-> d.feature, property |-> d.property]

\* writes an absent requires as an empty list
Provider_dump_empty_for_none(p) ==
    ("plugin-api" :> p.plugin_api) @@ ("enable-if" :> p.enable_if)
        @@ ("install-time" :> p.install_time) @@ ("optional" :> p.optional)
        @@ ("requires" :> IF IsNone(p.requires) THEN Some(<<>>) ELSE p.requires)

Provider_dump(p) ==
    ("plugin-api" :> p.plugin_api) @@ ("enable-if" :> p.enable_if)
        @@ ("install-time" :> p.install_time) @@ ("optional" :> p.optional)
        @@ ("requires" :> p.requires)

model_dump(v) ==
    ("default-priorities" :> DefaultPriorities_dump(v.default_priorities))
        @@ ("providers" :> [i \in DOMAIN v.providers |->
                               <<v.providers[i][1], Provider_dump(v.providers[i][2])>>])
        @@ ("static-properties" :> v.static_properties)
        @@ ("variants" :> v.variants)

(***************************************************************************)
(* regenerate_json_schema: the JSON Schema pydantic derives from the field *)
(* declarations (types, Field(min_length=...), defaults, aliases), plus    *)
(* the three metadata literals.  The bodies of field_validator and         *)
(* model_validator functions are opaque to the generator: it emits no      *)
(* pattern, propertyNames, uniqueItems or if/then keyword for them.        *)
(***************************************************************************)
StringSchema == [type |-> "string"]
ArraySchema == [type |-> "array", items |-> StringSchema]

DefaultPriorities_schema ==
    [type |-> "object",
     required |-> {"namespace"},
     properties |-> [namespace |-> [type |-> "array", items |-> StringSchema, minItems |-> 1],
                     feature |-> [type |-> "object", additionalProperties |-> ArraySchema],
                     property |-> [type |-> "object"]]]

Provider_schema ==
    [type |-> "object",
     required |-> {},
     properties |-> ("plugin-api" :> StringSchema)
                    @@ ("enable-if" :> [type |-> "string", minLength |-> 1])
                    @@ ("install-time" :> [type |-> "boolean", default |-> TRUE])
                    @@ ("optional" :> [type |-> "boolean", default |-> FALSE])
                    @@ ("requires" :> ArraySchema)]

Metadata ==
    ("$schema" :> "https://json-schema.org/draft/2020-12/schema")
        @@ ("$id" :> "https://wheelnext.dev/variants.json")
        @@ ("title" :> "{name}-{version}-variants.json")

regenerate_json_schema(include_metadata) ==
    (IF include_metadata THEN Metadata ELSE <<>>)
    @@ [type |-> "object",
        required |-> {"default-priorities", "providers", "variants"},
        properties |-> ("default-priorities" :> DefaultPriorities_schema)
                       @@ ("providers" :> [type |-> "object", additionalProperties |-> Provider_schema])
                       @@ ("static-properties" :> [type |-> "object"])
                       @@ ("variants" :> [type |-> "object"])]

\* Evaluation of a document against the emitted schema, keyword by keyword.
StringAccepts(sch, s) == "minLength" \in DOMAIN sch => Len(s) >= sch.minLength

ArrayAccepts(sch, v) ==
    /\ "minItems" \in DOMAIN sch => Len(v) >= sch.minItems
    /\ "uniqueItems" \in DOMAIN sch => (~sch.uniqueItems \/ Len(v) = Cardinality(Range(v)))
    /\ \A i \in DOMAIN v : StringAccepts(sch.items, v[i])

\* anyOf [sch, {"type": "null"}]: None is accepted, a value goes to sch
DefaultPrioritiesAccepts(sch, d) ==
    /\ sch.required \subseteq DOMAIN d
    /\ "namespace" \in DOMAIN d => ArrayAccepts(sch.properties.namespace, d.namespace)
    /\ "feature" \in DOMAIN d =>
          \/ IsNone(d.feature)
          \/ \A i \in DOMAIN Val(d.feature) :
                ArrayAccepts(sch.properties.feature.additionalProperties, Val(d.feature)[i][2])

ProviderAccepts(sch, p) ==
    /\ sch.required \subseteq DOMAIN p
    /\ "plugin-api" \in DOMAIN p =>
          \/ IsNone(p["plugin-api"])
          \/ StringAccepts(sch.properties["plugin-api"], Val(p["plugin-api"]))
    /\ "enable-if" \in DOMAIN p =>
          \/ IsNone(p["enable-if"])
          \/ StringAccepts(sch.properties["enable-if"], Val(p["enable-if"]))
    /\ "requires" \in DOMAIN p =>
          \/ IsNone(p["requires"])
          \/ ArrayAccepts(sch.properties["requires"], Val(p["requires"]))

JsonSchemaAccepts(sch, doc) ==
    /\ sch.required \subseteq DOMAIN doc
    /\ "default-priorities" \in DOMAIN doc =>
          DefaultPrioritiesAccepts(sch.properties["default-priorities"], doc["default-priorities"])
    /\ "providers" \in DOMAIN doc =>
          \A i \in DOMAIN doc["providers"] :
              ProviderAccepts(sch.properties["providers"].additionalProperties, doc["providers"][i][2])

(***************************************************************************)
(* A validation run of one raw document, field by field, followed by what  *)
(* a caller can do with the constructed instance.                          *)
(***************************************************************************)
DefaultPrioritiesCandidates ==
    { [namespace |-> <<"cuda", "cpu">>],
      [namespace |-> <<"cuda">>,
       feature |-> Some(<< <<"cuda", <<"sm", "arch">> >> >>),
       property |-> None],
      [namespace |-> <<"cuda", "cuda">>],
      [namespace |-> <<>>] }

GoodProvider ==
    ("plugin-api" :> Some("pkg.mod:Cls")) @@ ("install-time" :> TRUE)
        @@ ("requires" :> Some(<<"pkg>=1">>))
AotProvider == ("install-time" :> FALSE) @@ ("optional" :> TRUE)
NoRequiresProvider == ("install-time" :> TRUE)
BadFieldProvider == ("enable-if" :> Some("")) @@ ("requires" :> Some(<<"pkg>=1">>))

DocProviderCandidates == {GoodProvider, AotProvider, NoRequiresProvider, BadFieldProvider}
ProviderKeys == {"cuda_provider", "bad-key"}

\* mappings of at most MaxProviders distinct keys
ProviderMappings ==
    UNION { { m \in [1..n -> ProviderKeys \X DocProviderCandidates] :
                \A i, j \in 1..n : i # j => m[i][1] # m[j][1] }
            : n \in 0..MaxProviders }

GoodStatic == Some(<< <<"cuda", << <<"sm", <<"8.0", "9.0">> >> >> >> >>)
DupStatic == Some(<< <<"cuda", << <<"sm", <<"8.0", "8.0">> >> >> >> >>)

GoodVariants == << <<"cuda12", << <<"cuda", << <<"version", <<"12.0", "12.1">> >> >> >> >> >> >>
LongLabelVariants == << <<"abcdefghijklmnopq", <<>> >> >>
DupVariants == << <<"cuda12", << <<"cuda", << <<"version", <<"12.0", "12.0">> >> >> >> >> >> >>

Documents ==
    {a @@ b @@ c @@ d :
        a \in KeyChoices("default-priorities", DefaultPrioritiesCandidates),
        b \in KeyChoices("providers", ProviderMappings),
        c \in KeyChoices("static-properties", {GoodStatic, DupStatic}),
        d \in KeyChoices("variants", {GoodVariants, LongLabelVariants, DupVariants})}

InitDoc ==
    /\ input \in Documents
    /\ verdict = NoVerdict
    /\ pc = "default_priorities" /\ idx = 1 /\ errors = <<>> /\ log = <<>>
    /\ inst = None /\ writes = 0 /\ dumped = None /\ reval = None

\* field default_priorities: the nested DefaultPriorities model
Field_default_priorities ==
    /\ pc = "default_priorities"
    /\ errors' = errors \o default_priorities_errors(input)
    /\ log' = log \o (IF Present(input, "default-priorities", "default_priorities")
                      THEN <<"DefaultPriorities">> ELSE <<>>)
    /\ pc' = "providers"
    /\ UNCHANGED <<input, verdict, idx, inst, writes, dumped, reval>>

\* field providers, one value of the mapping: Provider(raw), its field validators
\* and then its model validator
Field_providers_value ==
    /\ pc = "providers"
    /\ Present(input, "providers", "providers")
    /\ idx <= Len(input.providers)
    /\ LET r == Provider_validate(input.providers[idx][2])
       IN /\ errors' = errors \o r.errs
          /\ log' = log \o <<"Provider.fields">>
                        \o (IF r.cross_ran THEN <<"validate_conditional_requires">> ELSE <<>>)
    /\ idx' = idx + 1
    /\ UNCHANGED <<input, verdict, pc, inst, writes, dumped, reval>>

\* field providers, after its values: the field validator validate_providers
Field_providers_after ==
    /\ pc = "providers"
    /\ Present(input, "providers", "providers") => idx > Len(input.providers)
    /\ IF ~Present(input, "providers", "providers")
       THEN errors' = errors \o <<Missing>> /\ log' = log
       ELSE /\ errors' = errors \o providers_key_errors(input.providers)
            /\ log' = log \o (IF InnerFailed(providers_value_errors(input.providers))
                              THEN <<>> ELSE <<"validate_providers">>)
    /\ pc' = "static_properties"
    /\ UNCHANGED <<input, verdict, idx, inst, writes, dumped, reval>>

\* field static_properties: its validator runs on a given value, not on the default
Field_static_properties ==
    /\ pc = "static_properties"
    /\ errors' = errors \o static_properties_errors(input)
    /\ log' = log \o (IF Present(input, "static-properties", "static_properties")
                      THEN <<"validate_static_properties">> ELSE <<>>)
    /\ pc' = "variants"
    /\ UNCHANGED <<input, verdict, idx, inst, writes, dumped, reval>>

Field_variants ==
    /\ pc = "variants"
    /\ errors' = errors \o variants_errors(input)
    /\ log' = log \o (IF Present(input, "variants", "variants")
                      THEN <<"validate_variants">> ELSE <<>>)
    /\ pc' = "finish"
    /\ UNCHANGED <<input, verdict, idx, inst, writes, dumped, reval>>

\* the instance is returned, or ValidationError raised with the collected errors
Finish ==
    /\ pc = "finish"
    /\ IF errors = <<>>
       THEN inst' = Some(VariantsSchema_fields(input)) /\ pc' = "constructed"
       ELSE inst' = None /\ pc' = "raised"
    /\ UNCHANGED <<input, verdict, idx, errors, log, writes, dumped, reval>>

\* v.providers, v.variants, ...: reading changes nothing
ReadField ==
    /\ pc = "constructed"
    /\ UNCHANGED vars

\* v.providers[k].install_time = b / v.providers[k].requires = None: the models
\* configure neither frozen nor validate_assignment, the value is stored as given
SetProviderAttr ==
    /\ pc = "constructed"
    /\ writes < MaxWrites
    /\ \E i \in DOMAIN Val(inst).providers :
         \E p \in { [Val(inst).providers[i][2] EXCEPT !.install_time = b] : b \in BOOLEAN }
                    \cup { [Val(inst).providers[i][2] EXCEPT !.requires = None] } :
            inst' = Some([Val(inst) EXCEPT !.providers[i][2] = p])
    /\ writes' = writes + 1
    /\ UNCHANGED <<input, verdict, pc, idx, errors, log, dumped, reval>>

\* v.default_priorities.namespace.append(x): a list held by the instance is the
\* caller's to mutate
AppendNamespace ==
    /\ pc = "constructed"
    /\ writes < MaxWrites
    /\ \E x \in {"cuda", "No Such"} :
         inst' = Some([Val(inst) EXCEPT !.default_priorities.namespace = Append(@, x)])
    /\ writes' = writes + 1
    /\ UNCHANGED <<input, verdict, pc, idx, errors, log, dumped, reval>>

\* v.variants = value
SetVariants ==
    /\ pc = "constructed"
    /\ writes < MaxWrites
    /\ \E x \in {<<>>, LongLabelVariants} :
         inst' = Some([Val(inst) EXCEPT !.variants = x])
    /\ writes' = writes + 1
    /\ UNCHANGED <<input, verdict, pc, idx, errors, log, dumped, reval>>

\* v.model_dump(by_alias=True)
ModelDump ==
    /\ pc = "constructed"
    /\ dumped' = Some(model_dump(Val(inst)))
    /\ UNCHANGED <<input, verdict, pc, idx, errors, log, inst, writes, reval>>

\* VariantsSchema.model_validate(dumped)
Revalidate ==
    /\ pc = "constructed"
    /\ dumped # None
    /\ reval' = Some(VariantsSchema_validate(Val(dumped)))
    /\ UNCHANGED <<input, verdict, pc, idx, errors, log, inst, writes, dumped>>

NextDoc ==
    \/ Field_default_priorities
    \/ Field_providers_value
    \/ Field_providers_after
    \/ Field_static_properties
    \/ Field_variants
    \/ Finish
    \/ ReadField
    \/ SetProviderAttr
    \/ AppendNamespace
    \/ SetVariants
    \/ ModelDump
    \/ Revalidate

SpecDoc == InitDoc /\ [][NextDoc]_vars

\* v passes every check the validators of its type perform
Conforms(v) ==
    /\ namespace_field(v.default_priorities.namespace).ok
    /\ validate_feature(v.default_priorities.feature).ok
    /\ validate_property(v.default_priorities.property).ok
    /\ \A i \in DOMAIN v.providers :
         LET p == v.providers[i][2]
         IN /\ validate_plugin_api(p.plugin_api).ok
            /\ enable_if_field(p.enable_if).ok
            /\ validate_requires(p.requires).ok
            /\ validate_conditional_requires(p).ok
    /\ validate_providers(v.providers).ok
    /\ validate_static_properties(v.static_properties).ok
    /\ validate_variants(v.variants).ok

ProviderAliases == {"plugin-api", "enable-if", "install-time", "optional", "requires"}
SchemaAliases == {"default-priorities", "providers", "static-properties", "variants"}

\* C6: serialising a valid VariantsSchema v by alias gives a mapping with the
\* hyphenated keys, and validating that mapping succeeds with an instance equal to
\* v: defaults are kept and absent optional fields stay None.
C6_RoundTrip ==
    [][ /\ (dumped' # dumped) =>
              /\ DOMAIN Val(dumped') = SchemaAliases
              /\ \A i \in DOMAIN Val(dumped')["providers"] :
                    DOMAIN Val(dumped')["providers"][i][2] = ProviderAliases
        /\ (reval' # reval /\ Conforms(Val(inst)) /\ dumped = Some(model_dump(Val(inst)))) =>
              reval' = Some([ok |-> TRUE, errs |-> <<>>, inst |-> inst])
      ]_vars

\* a round trip has reproduced an instance with absent optional fields and a
\* non-default install_time
C6_Witness ==
    /\ inst # None /\ reval # None
    /\ Val(reval).ok /\ Val(reval).inst = inst
    /\ IsNone(Val(inst).static_properties)
    /\ IsNone(Val(inst).default_priorities.feature)
    /\ \E i \in DOMAIN Val(inst).providers :
          /\ IsNone(Val(inst).providers[i][2].requires)
          /\ IsNone(Val(inst).providers[i][2].plugin_api)
          /\ Val(inst).providers[i][2].install_time = FALSE

\* C7 as stated: a constructed instance never changes, so every observable
\* instance is the one validation built and satisfies all validation rules.
C7_Immutable ==
    inst # None => (inst = Some(VariantsSchema_fields(input)) /\ Conforms(Val(inst)))

\* C7 amended: an instance exists only if validation collected no error, and
\* until the caller assigns to it or mutates a list it holds, whatever it has read
\* or serialised, it is the instance validation built and passes every check of
\* its validators.
C7_ValidUntilWritten ==
    /\ inst # None => (errors = <<>> /\ pc = "constructed")
    /\ (inst # None /\ writes = 0) =>
          (inst = Some(VariantsSchema_fields(input)) /\ Conforms(Val(inst)))

C7_Witness ==
    /\ inst # None /\ writes = 0
    /\ dumped # None /\ reval # None
    /\ Val(inst).providers # <<>>

\* C8: a document is accepted by the emitted JSON Schema iff VariantsSchema
\* validation accepts it.
C8_SchemaEquivalent ==
    pc \in {"constructed", "raised"} =>
        (JsonSchemaAccepts(regenerate_json_schema(TRUE), input) <=> pc = "constructed")

\* a Provider of the document passes its field validators and fails the cross-field rule
ViolatesCrossField(raw) ==
    /\ "providers" \in DOMAIN raw
    /\ \E i \in DOMAIN raw.providers :
          /\ Provider_field_errors(raw.providers[i][2]) = <<>>
          /\ ~InstallTimeFalse(raw.providers[i][2])
          /\ RequiresAbsent(raw.providers[i][2])

ViolatesKeyPattern(raw) ==
    /\ "providers" \in DOMAIN raw
    /\ \E i \in DOMAIN raw.providers : ~key_pattern(raw.providers[i][1])

IsKeyError(e) == e.kind = "pattern" /\ Contains(e.msg, "Provider key")
Ended == pc \in {"constructed", "raised"}

\* C9 as stated: the cross-field check of a Provider never executes before the
\* providers-key pattern check, and a document violating both has the key-pattern
\* violation detected first.
C9_KeysBeforeCrossField ==
    /\ \A i \in DOMAIN log :
          log[i] = "validate_conditional_requires" =>
              \E j \in 1..(i - 1) : log[j] = "validate_providers"
    /\ (Ended /\ ViolatesCrossField(input) /\ ViolatesKeyPattern(input)) =>
          \E i \in DOMAIN errors :
              /\ IsKeyError(errors[i])
              /\ \A j \in 1..(i - 1) : errors[j].kind # "cross"

Rank(name) ==
    CASE name = "DefaultPriorities" -> 1
      [] name = "Provider.fields" -> 2
      [] name = "validate_conditional_requires" -> 2
      [] name = "validate_providers" -> 3
      [] name = "validate_static_properties" -> 4
      [] name = "validate_variants" -> 5

\* C9 amended: the fields are validated in declaration order (default_priorities,
\* providers, static_properties, variants), a missing required field being reported
\* at its own place; within providers every Provider is validated whole, its
\* cross-field check included, before the key-pattern check, which runs only if
\* every Provider validated.  So the cross-field check never executes after the
\* key-pattern check, and a document violating the cross-field rule has that
\* violation reported and the key-pattern check not run.
C9_CrossFieldBeforeKeys ==
    /\ \A i, j \in DOMAIN log : i < j => Rank(log[i]) <= Rank(log[j])
    /\ \A i, j \in DOMAIN log :
          (log[i] = "validate_conditional_requires" /\ log[j] = "validate_providers") => i < j
    /\ (Ended /\ ViolatesCrossField(input)) =>
          /\ \A j \in DOMAIN log : log[j] # "validate_providers"
          /\ \E i \in DOMAIN errors : errors[i].kind = "cross"
          /\ \A i \in DOMAIN errors : ~IsKeyError(errors[i])
    /\ (Ended /\ "default-priorities" \notin DOMAIN input /\ "default_priorities" \notin DOMAIN input) =>
          errors[1] = Missing
    /\ Ended => errors = VariantsSchema_errors(input)

\* a run has ended on a document whose Provider under a malformed key lacks requires
C9_Witness ==
    /\ pc = "raised"
    /\ ViolatesCrossField(input) /\ ViolatesKeyPattern(input)
    /\ \E i \in DOMAIN input.providers :
          /\ input.providers[i][1] = "bad-key"
          /\ input.providers[i][2] = NoRequiresProvider
    /\ \E i \in DOMAIN errors : errors[i].kind = "cross"

====
